---- MODULE Spec2Model ----
(***************************************************************************)
(* A model of rng.py: the four generators MiddleSquare,                    *)
(* LinearCongruential, LaggedFibonacci and Acorn, and the Analyzer that    *)
(* consumes them.                                                          *)
(*                                                                         *)
(* Python objects that the code shares by reference (lists and dicts) live *)
(* in a heap of addressed objects; an instance holds addresses.  Integers  *)
(* are Python integers: unbounded, so no width is modelled.                *)
(***************************************************************************)
EXTENDS Integers, Sequences, FiniteSets, TLC

(***************************************************************************)
(* Bounds of the model.                                                    *)
(***************************************************************************)
\* largest scalar seed offered to LinearCongruential
MaxSeed == 3
\* largest modulus offered to the generators
MaxMod == 3
\* longest seed list
MaxLen == 3
\* largest max_nums offered to Analyzer.analyze
MaxNums == 3
\* the counters of advances and of emitted values saturate here
MaxCount == 3
\* largest two-digit seed offered to MiddleSquare
MaxMSSeed == 99
\* number of analyze calls on one Analyzer
MaxCalls == 2
\* number of heap addresses
NumAddr == 8

(***************************************************************************)
(* Python integer arithmetic and text conversion.                          *)
(***************************************************************************)
Abs(x) == IF x < 0 THEN -x ELSE x

\* x % m of Python for m /= 0: the result has the sign of the divisor
PyMod(x, m) == IF m > 0 THEN x % m ELSE -((-x) % (-m))

RECURSIVE Pow(_, _)
Pow(b, e) == IF e <= 0 THEN 1 ELSE b * Pow(b, e - 1)

DigitChars == <<"0", "1", "2", "3", "4", "5", "6", "7", "8", "9">>

RECURSIVE DigitsOf(_)
\* the decimal digits of n >= 0, most significant first
DigitsOf(n) ==
  IF n < 10 THEN <<DigitChars[n + 1]>>
  ELSE Append(DigitsOf(n \div 10), DigitChars[(n % 10) + 1])

\* str(n) as a sequence of characters
Str(n) == IF n < 0 THEN <<"-">> \o DigitsOf(-n) ELSE DigitsOf(n)

Zeros(k) == [i \in 1..k |-> "0"]

\* s.zfill(width): zeros go after a leading sign
ZFill(s, width) ==
  IF Len(s) >= width THEN s
  ELSE IF Len(s) > 0 /\ s[1] = "-"
       THEN <<"-">> \o Zeros(width - Len(s)) \o Tail(s)
       ELSE Zeros(width - Len(s)) \o s

Min2(a, b) == IF a < b THEN a ELSE b

\* s[lo:hi] for 0 <= lo, 0 <= hi
PySlice(s, lo, hi) ==
  IF lo >= Min2(hi, Len(s)) THEN << >>
  ELSE SubSeq(s, lo + 1, Min2(hi, Len(s)))

CharVal(c) == CHOOSE d \in 0..9 : DigitChars[d + 1] = c

RECURSIVE DigitsVal(_)
DigitsVal(s) ==
  IF s = << >> THEN 0
  ELSE 10 * DigitsVal(SubSeq(s, 1, Len(s) - 1)) + CharVal(s[Len(s)])

\* whether int(s) succeeds, for the strings __next__ can build (digits only)
PyIntOk(s) == Len(s) > 0 /\ \A i \in 1..Len(s) : s[i] /= "-"

PyInt(s) == DigitsVal(s)

\* seq[i] of Python: negative indices count from the end
PyIndexOk(seq, i) == -Len(seq) <= i /\ i < Len(seq)

PyIndex(seq, i) == IF i < 0 THEN seq[Len(seq) + i + 1] ELSE seq[i + 1]

(***************************************************************************)
(* The heap: lists and dicts are objects with an address.                  *)
(***************************************************************************)
Addr == 1..NumAddr

FreeObj == [t |-> "free"]

ListObj(items) == [t |-> "list", items |-> items]

DictObj(d) == [t |-> "dict", d |-> d]

EmptyHeap == [a \in Addr |-> FreeObj]

HasKey(d, k) == k \in DOMAIN d

\* the keys of a generator's state dict whose value is a list
RefKeys(kind) ==
  CASE kind = "LF" -> {"val"}
    [] kind = "AC" -> {"vals"}
    [] OTHER -> {}

\* the addresses an instance holds
SelfRefs(self) ==
  CASE self.kind = "MS" -> {self.state}
    [] self.kind = "LCG" -> {}
    [] self.kind = "LF" -> {self.state, self.value}
    [] self.kind = "AC" -> {self.state, self.seed}
    [] OTHER -> {}

\* the objects reachable from the instance and from the caller
Reach(w) ==
  LET roots == SelfRefs(w.self) \cup w.held
      below(a) ==
        IF w.heap[a].t = "dict"
        THEN {w.heap[a].d[k] : k \in RefKeys(w.self.kind) \cap DOMAIN w.heap[a].d}
        ELSE {}
  IN roots \cup UNION {below(a) : a \in roots}

\* the address of a new object: one nothing refers to
Alloc(w) == CHOOSE a \in Addr \ Reach(w) : \A b \in Addr \ Reach(w) : a <= b

\* objects nothing refers to are reclaimed
Collect(w) ==
  [w EXCEPT !.heap = [a \in Addr |-> IF a \in Reach(w) THEN w.heap[a] ELSE FreeObj]]

Put(w, a, obj) == [w EXCEPT !.heap[a] = obj]

(***************************************************************************)
(* What a call returns to its caller.                                      *)
(***************************************************************************)
\* no call yet
NoOut == [t |-> "none", nums |-> << >>, islist |-> FALSE, e |-> ""]

\* return of an integer
Emit(v) == [t |-> "val", nums |-> <<v>>, islist |-> FALSE, e |-> ""]

\* return of a list
EmitList(vs) == [t |-> "val", nums |-> vs, islist |-> TRUE, e |-> ""]

\* raise StopIteration
Stop == [t |-> "stop", nums |-> << >>, islist |-> FALSE, e |-> ""]

\* raise any other exception
Raise(e) == [t |-> "err", nums |-> << >>, islist |-> FALSE, e |-> e]

\* return of a state dict (get_state)
Exported == [t |-> "state", nums |-> << >>, islist |-> FALSE, e |-> ""]

\* return None (set_state)
Done == [t |-> "import", nums |-> << >>, islist |-> FALSE, e |-> ""]

Res(w, out) == [w |-> Collect(w), out |-> out]

\* before any constructor has run
NewWorld == [heap |-> EmptyHeap, held |-> {}, self |-> [kind |-> "none"]]

\* the caller builds a list and holds it
CallerList(w, items) ==
  LET la == Alloc(w)
  IN [w |-> [Put(w, la, ListObj(items)) EXCEPT !.held = @ \cup {la}], ret |-> la]

(***************************************************************************)
(* MiddleSquare                                                            *)
(***************************************************************************)
\* __init__ raises nothing: the seed's text has an even number of characters
MiddleSquare_accepts(seed) == Len(Str(seed)) % 2 = 0

\* __init__ in the world w of the caller
MiddleSquare_construct(w, seed) ==
  LET sa == Alloc(w)
      w1 == Put(w, sa, DictObj([val |-> seed, ndigits |-> Len(Str(seed))]))
  IN [w1 EXCEPT !.self = [kind |-> "MS", seed |-> seed, state |-> sa,
                          seen_numbers |-> {}]]

MiddleSquare_init(seed) == MiddleSquare_construct(NewWorld, seed)

\* MiddleOf with the slice running to the end of the padded square
MiddleOf_to_end(sq, ndigits) ==
  PySlice(ZFill(Str(sq), 2 * ndigits), ndigits \div 2, 2 * ndigits)

\* the middle ndigits characters of the zero-padded square
MiddleOf(sq, ndigits) ==
  PySlice(ZFill(Str(sq), 2 * ndigits), ndigits \div 2, (3 * ndigits) \div 2)

MiddleSquare_next(w) ==
  LET sa == w.self.state
      st == w.heap[sa].d
      sq == st.val * st.val
      mid == MiddleOf(sq, st.ndigits)
  IN IF ~PyIntOk(mid)
     THEN Res(Put(w, sa, DictObj([st EXCEPT !.val = sq])), Raise("ValueError"))
     ELSE LET v == PyInt(mid)
              w2 == Put(w, sa, DictObj([st EXCEPT !.val = v]))
          IN IF v \in w.self.seen_numbers
             THEN Res(w2, Stop)
             ELSE Res([w2 EXCEPT !.self.seen_numbers = @ \cup {v}], Emit(v))

\* returns a new dict with the same items; the caller holds it
MiddleSquare_get_state(w) ==
  LET ca == Alloc(w)
      w1 == Put(w, ca, w.heap[w.self.state])
  IN [w |-> [w1 EXCEPT !.held = @ \cup {ca}], ret |-> ca]

\* set_state that also empties seen_numbers
MiddleSquare_set_state_clears_seen(w, p) ==
  LET d == w.heap[p].d
  IN IF HasKey(d, "ndigits") /\ HasKey(d, "val")
     THEN [w |-> [w EXCEPT !.self.state = p, !.self.seen_numbers = {}],
           out |-> Done]
     ELSE [w |-> w, out |-> Raise("ValueError")]

\* keeps the caller's dict itself; seen_numbers is left as it is
MiddleSquare_set_state(w, p) ==
  LET d == w.heap[p].d
  IN IF HasKey(d, "ndigits") /\ HasKey(d, "val")
     THEN [w |-> [w EXCEPT !.self.state = p], out |-> Done]
     ELSE [w |-> w, out |-> Raise("ValueError")]

(***************************************************************************)
(* LinearCongruential                                                      *)
(***************************************************************************)
\* __init__ validates nothing
LinearCongruential_accepts(seed, a, c, m) == TRUE

\* __init__ in the world w of the caller
LinearCongruential_construct(w, seed, a, c, m) ==
  [w EXCEPT !.self =
     [kind |-> "LCG", seed |-> seed, a |-> a, c |-> c, m |-> m, value |-> seed,
      state |-> [val |-> seed, a |-> a, c |-> c, m |-> m], seen_numbers |-> {}]]

LinearCongruential_init(seed, a, c, m) ==
  LinearCongruential_construct(NewWorld, seed, a, c, m)

\* __next__ without the seen_numbers.add
LinearCongruential_next_no_add(w) ==
  LET s == w.self
  IN IF s.value \in s.seen_numbers
     THEN Res(w, Stop)
     ELSE IF s.m = 0
          THEN Res(w, Raise("ZeroDivisionError"))
          ELSE LET v == PyMod(s.a * s.value + s.c, s.m)
               IN Res([w EXCEPT !.self.value = v], Emit(v))

LinearCongruential_next(w) ==
  LET s == w.self
  IN IF s.value \in s.seen_numbers
     THEN Res(w, Stop)
     ELSE LET w1 == [w EXCEPT !.self.seen_numbers = @ \cup {s.value}]
          IN IF s.m = 0
             THEN Res(w1, Raise("ZeroDivisionError"))
             ELSE LET v == PyMod(s.a * s.value + s.c, s.m)
                  IN Res([w1 EXCEPT !.self.value = v], Emit(v))

\* get_state returning the dict kept since construction
LinearCongruential_state_dict_stale(s) == s.state

\* the dict get_state builds from the fields
LinearCongruential_state_dict(s) ==
  [val |-> s.value, a |-> s.a, c |-> s.c, m |-> s.m]

LinearCongruential_get_state(w) ==
  LET ca == Alloc(w)
      w1 == Put(w, ca, DictObj(LinearCongruential_state_dict(w.self)))
  IN [w |-> [w1 EXCEPT !.held = @ \cup {ca}], ret |-> ca]

\* set_state without the new, empty seen_numbers
LinearCongruential_set_state_keeps_seen(w, p) ==
  LET d == w.heap[p].d
      w1 == [w EXCEPT !.self.a = d.a]
      w2 == [w1 EXCEPT !.self.c = d.c]
      w3 == [w2 EXCEPT !.self.m = d.m]
      w4 == [w3 EXCEPT !.self.value = d.val]
  IN IF ~HasKey(d, "a") THEN [w |-> w, out |-> Raise("KeyError")]
     ELSE IF ~HasKey(d, "c") THEN [w |-> w1, out |-> Raise("KeyError")]
     ELSE IF ~HasKey(d, "m") THEN [w |-> w2, out |-> Raise("KeyError")]
     ELSE IF ~HasKey(d, "val") THEN [w |-> w3, out |-> Raise("KeyError")]
     ELSE [w |-> w4, out |-> Done]

\* the four assignments run in order; a missing key raises KeyError at its line
LinearCongruential_set_state(w, p) ==
  LET d == w.heap[p].d
      w1 == [w EXCEPT !.self.a = d.a]
      w2 == [w1 EXCEPT !.self.c = d.c]
      w3 == [w2 EXCEPT !.self.m = d.m]
      w4 == [w3 EXCEPT !.self.value = d.val]
  IN IF ~HasKey(d, "a") THEN [w |-> w, out |-> Raise("KeyError")]
     ELSE IF ~HasKey(d, "c") THEN [w |-> w1, out |-> Raise("KeyError")]
     ELSE IF ~HasKey(d, "m") THEN [w |-> w2, out |-> Raise("KeyError")]
     ELSE IF ~HasKey(d, "val") THEN [w |-> w3, out |-> Raise("KeyError")]
     ELSE [w |-> [w4 EXCEPT !.self.seen_numbers = {}], out |-> Done]

(***************************************************************************)
(* LaggedFibonacci                                                         *)
(***************************************************************************)
LaggedFibonacci_accepts(seed, j, k, m) == 0 < j /\ j < k /\ k <= Len(seed)

\* __init__ given the caller's list at address la: the state dict holds that
\* list itself; __value is a copy of it
LaggedFibonacci_construct(w, la, j, k, m) ==
  LET sa == Alloc(w)
      w2 == [Put(w, sa, DictObj([val |-> la, j |-> j, k |-> k, m |-> m]))
               EXCEPT !.held = @ \cup {sa}]
      va == Alloc(w2)
      w3 == Put(w2, va, ListObj(w.heap[la].items))
  IN [w3 EXCEPT !.self = [kind |-> "LF", state |-> sa, value |-> va],
                !.held = w.held]

LaggedFibonacci_init(seed, j, k, m) ==
  LET c == CallerList(NewWorld, seed)
  IN LaggedFibonacci_construct(c.w, c.ret, j, k, m)

LaggedFibonacci_next(w) ==
  LET st == w.heap[w.self.state].d
  IN IF ~(HasKey(st, "val") /\ HasKey(st, "j") /\ HasKey(st, "k") /\ HasKey(st, "m"))
     THEN Res(w, Raise("KeyError"))
     ELSE LET state == w.heap[st.val].items
          IN IF ~(PyIndexOk(state, -st.k) /\ PyIndexOk(state, -st.j))
             THEN Res(w, Raise("IndexError"))
             ELSE IF st.m = 0
             THEN Res(w, Raise("ZeroDivisionError"))
             ELSE LET next_number ==
                        PyMod(PyIndex(state, -st.k) + PyIndex(state, -st.j), st.m)
                      slid == Tail(Append(state, next_number))
                      w1 == Put(w, st.val, ListObj(slid))
                  IN IF slid = w.heap[w.self.value].items
                     THEN Res(w1, Stop)
                     ELSE Res(w1, Emit(next_number))

\* returns the state dict itself
LaggedFibonacci_get_state(w) ==
  [w |-> [w EXCEPT !.held = @ \cup {w.self.state}], ret |-> w.self.state]

\* keeps whatever dict it is given
LaggedFibonacci_set_state(w, p) ==
  [w |-> [w EXCEPT !.self.state = p], out |-> Done]

(***************************************************************************)
(* Acorn                                                                   *)
(***************************************************************************)
\* seed[0] of an empty list raises IndexError
Acorn_accepts(seed, M) == Len(seed) > 0 /\ ~(seed[1] >= M)

\* __init__ given the caller's list at address la: both the state dict and
\* self.seed hold that list itself
Acorn_construct(w, la, M) ==
  LET sa == Alloc(w)
      w2 == Put(w, sa, DictObj([vals |-> la, M |-> M]))
  IN [w2 EXCEPT !.self = [kind |-> "AC", state |-> sa, seed |-> la,
                          seen_numbers |-> <<w.heap[la].items>>]]

Acorn_init(seed, M) ==
  LET c == CallerList(NewWorld, seed)
  IN Acorn_construct(c.w, c.ret, M)

RECURSIVE AcornVals(_, _, _)
\* new_vals[0..n-1] of the loop, for 1 <= n <= Len(vals) and M /= 0
AcornVals(vals, M, n) ==
  IF n = 1 THEN <<vals[1]>>
  ELSE LET prev == AcornVals(vals, M, n - 1)
       IN Append(prev, PyMod(prev[n - 1] + vals[n], M))

Acorn_next(w) ==
  LET sa == w.self.state
      st == w.heap[sa].d
      vals == w.heap[st.vals].items
  IN IF Len(vals) = 0 THEN Res(w, Raise("IndexError"))
     ELSE IF Len(vals) > 1 /\ st.M = 0 THEN Res(w, Raise("ZeroDivisionError"))
     ELSE LET new_vals == AcornVals(vals, st.M, Len(vals))
          IN IF new_vals = w.heap[w.self.seed].items
             THEN Res(w, Stop)
             ELSE LET na == Alloc(w)
                      w1 == Put(w, na, ListObj(new_vals))
                  IN Res(Put(w1, sa, DictObj([st EXCEPT !.vals = na])),
                         EmitList(new_vals))

\* returns the state dict itself
Acorn_get_state(w) ==
  [w |-> [w EXCEPT !.held = @ \cup {w.self.state}], ret |-> w.self.state]

\* copies the two items into its own dict; the list is the caller's list itself
Acorn_set_state(w, p) ==
  LET d == w.heap[p].d
      sa == w.self.state
  IN IF HasKey(d, "vals") /\ HasKey(d, "M")
     THEN LET w1 == Put(w, sa, DictObj([w.heap[sa].d EXCEPT !.vals = d.vals]))
          IN [w |-> Put(w1, sa, DictObj([w1.heap[sa].d EXCEPT !.M = d.M])),
              out |-> Done]
     ELSE [w |-> w, out |-> Raise("ValueError")]

(***************************************************************************)
(* The operations of whichever generator the instance is.                  *)
(***************************************************************************)
GenNext(w) ==
  CASE w.self.kind = "MS" -> MiddleSquare_next(w)
    [] w.self.kind = "LCG" -> LinearCongruential_next(w)
    [] w.self.kind = "LF" -> LaggedFibonacci_next(w)
    [] w.self.kind = "AC" -> Acorn_next(w)

GenGetState(w) ==
  CASE w.self.kind = "MS" -> MiddleSquare_get_state(w)
    [] w.self.kind = "LCG" -> LinearCongruential_get_state(w)
    [] w.self.kind = "LF" -> LaggedFibonacci_get_state(w)
    [] w.self.kind = "AC" -> Acorn_get_state(w)

GenSetState(w, p) ==
  CASE w.self.kind = "MS" -> MiddleSquare_set_state(w, p)
    [] w.self.kind = "LCG" -> LinearCongruential_set_state(w, p)
    [] w.self.kind = "LF" -> LaggedFibonacci_set_state(w, p)
    [] w.self.kind = "AC" -> Acorn_set_state(w, p)

\* g.set_state(g.get_state()); the caller keeps no reference to the dict
RoundTripOf(w) ==
  LET g == GenGetState(w)
      s == GenSetState(g.w, g.ret)
  IN Res([s.w EXCEPT !.held = w.held], s.out)

(***************************************************************************)
(* The parameter sets offered to the constructors, and the payloads        *)
(* offered to set_state.                                                   *)
(***************************************************************************)
MSSeedCands == (-12..MaxMSSeed) \cup {-123, 1000, 2916, 3792, 9999}

LCGSeedCands == -1..MaxSeed

MultCands == 0..2

IncCands == 0..1

\* LinearCongruential is offered negative moduli too
LCGModCands == -2..MaxMod

ModCands == 0..MaxMod

ElemCands == {0, 1}

SeedListCands == UNION {[1..n -> ElemCands] : n \in 0..MaxLen}

LagCands == 0..MaxLen

InitWorlds ==
  {MiddleSquare_init(s) : s \in {x \in MSSeedCands : MiddleSquare_accepts(x)}}
  \cup {LinearCongruential_init(p[1], p[2], p[3], p[4]) :
          p \in {q \in LCGSeedCands \X MultCands \X IncCands \X LCGModCands :
                   LinearCongruential_accepts(q[1], q[2], q[3], q[4])}}
  \cup {LaggedFibonacci_init(p[1], p[2], p[3], p[4]) :
          p \in {q \in SeedListCands \X LagCands \X LagCands \X ModCands :
                   LaggedFibonacci_accepts(q[1], q[2], q[3], q[4])}}
  \cup {Acorn_init(p[1], p[2]) :
          p \in {q \in SeedListCands \X ModCands : Acorn_accepts(q[1], q[2])}}

\* a payload is the dict's items; under "list" the items of the list it refers to
Payloads(kind) ==
  CASE kind = "MS" ->
         {[d |-> [val |-> 24, ndigits |-> 2], list |-> << >>],
          [d |-> [val |-> 7, ndigits |-> 1], list |-> << >>],
          [d |-> [val |-> 5], list |-> << >>]}
    [] kind = "LCG" ->
         {[d |-> [val |-> 1, a |-> 1, c |-> 1, m |-> 3], list |-> << >>],
          [d |-> [val |-> 1, a |-> 1, c |-> 0, m |-> 0], list |-> << >>],
          [d |-> [a |-> 2, c |-> 1], list |-> << >>]}
    [] kind = "LF" ->
         {[d |-> [val |-> 0, j |-> 1, k |-> 2, m |-> 2], list |-> <<1, 1>>],
          [d |-> [val |-> 0, j |-> 1, k |-> 2, m |-> 2], list |-> <<1>>],
          [d |-> [j |-> 1], list |-> << >>]}
    [] kind = "AC" ->
         {[d |-> [vals |-> 0, M |-> 2], list |-> <<1, 1>>],
          [d |-> [vals |-> 0, M |-> 0], list |-> << >>],
          [d |-> [M |-> 3], list |-> << >>]}

\* the caller builds the payload's objects and holds them
PutPayload(w, pl) ==
  LET keys == RefKeys(w.self.kind) \cap DOMAIN pl.d
  IN IF keys = {}
     THEN LET pa == Alloc(w)
          IN [w |-> [Put(w, pa, DictObj(pl.d)) EXCEPT !.held = @ \cup {pa}],
              ret |-> pa]
     ELSE LET la == Alloc(w)
              w1 == [Put(w, la, ListObj(pl.list)) EXCEPT !.held = @ \cup {la}]
              pa == Alloc(w1)
              d == [k \in DOMAIN pl.d |-> IF k \in keys THEN la ELSE pl.d[k]]
          IN [w |-> [Put(w1, pa, DictObj(d)) EXCEPT !.held = @ \cup {pa}],
              ret |-> pa]

\* g.set_state(payload); the caller keeps no reference to the payload
ImportOf(w, pl) ==
  LET c == PutPayload(w, pl)
      s == GenSetState(c.w, c.ret)
  IN Res([s.w EXCEPT !.held = w.held], s.out)

(***************************************************************************)
(* Analyzer: the values of its attributes and the arithmetic of analyze.   *)
(***************************************************************************)
\* None
NoneVal == [none |-> TRUE, v |-> 0]

Some(x) == [none |-> FALSE, v |-> x]

RECURSIVE BinDigits(_)
\* the binary digits of n >= 0, most significant first
BinDigits(n) ==
  IF n < 2 THEN <<DigitChars[n + 1]>>
  ELSE Append(BinDigits(n \div 2), DigitChars[(n % 2) + 1])

\* bin(x) as a sequence of characters
Bin(x) ==
  IF x < 0 THEN <<"-", "0", "b">> \o BinDigits(-x) ELSE <<"0", "b">> \o BinDigits(x)

\* BinLen without the "- 2" for the "0b" prefix
BinLen_with_prefix(x) == Len(Bin(x))

\* len(bin(x)) - 2
BinLen(x) == Len(Bin(x)) - 2

\* whether num & (1 << i) is nonzero; Python integers are two's complement
BitSet(num, i) == ((num \div Pow(2, i)) % 2) = 1

\* bit_freqs.extend([0] * (bit_length - len(bit_freqs))) when it is shorter
Extended(bit_freqs, bit_length) ==
  IF Len(bit_freqs) < bit_length
  THEN bit_freqs \o [i \in 1..(bit_length - Len(bit_freqs)) |-> 0]
  ELSE bit_freqs

\* Counted with the loop stopping one position early
Counted_below_top(bit_freqs, num, bit_length) ==
  [p \in 1..Len(bit_freqs) |->
     IF p < bit_length /\ BitSet(num, p - 1) THEN bit_freqs[p] + 1 ELSE bit_freqs[p]]

\* the table after the loop over range(bit_length); index i is at position i+1
Counted(bit_freqs, num, bit_length) ==
  [p \in 1..Len(bit_freqs) |->
     IF p <= bit_length /\ BitSet(num, p - 1) THEN bit_freqs[p] + 1 ELSE bit_freqs[p]]

\* Analyzer.__init__
Analyzer_init ==
  [max |-> NoneVal, min |-> NoneVal, average |-> [num |-> 0, den |-> 1],
   period |-> 0, bit_freqs |-> << >>]

\* the body of "for num in numbers" on the attributes
SampleAttrs(a, num) ==
  LET mn == IF a.min.none \/ num < a.min.v THEN Some(num) ELSE a.min
      mx == IF a.max.none \/ num > a.max.v THEN Some(num) ELSE a.max
      bit_length == BinLen(mx.v)
  IN [a EXCEPT !.min = mn, !.max = mx,
               !.bit_freqs = Counted(Extended(a.bit_freqs, bit_length), num, bit_length)]

\* total / count, kept as the fraction; 0 when nothing was counted
AverageOf(total, count) ==
  IF count > 0 THEN [num |-> total, den |-> count] ELSE [num |-> 0, den |-> 1]

\* PeriodOf with the distinct values for every generator
PeriodOf_distinct(kind, seen_numbers, count) == Cardinality(seen_numbers)

\* PeriodOf with the sample count for every generator
PeriodOf_count(kind, seen_numbers, count) == count

\* the period analyze reports
PeriodOf(kind, seen_numbers, count) ==
  IF kind = "AC" THEN Cardinality(seen_numbers) ELSE count

\* the code after the loop
Finished(a, kind, r) ==
  [a EXCEPT !.average = AverageOf(r.total, r.count),
            !.period = PeriodOf(kind, r.seen_numbers, r.count)]

\* no analyze call is running
IdleRun ==
  [pc |-> "idle", max_nums |-> 0, total |-> 0, count |-> 0,
   seen_numbers |-> {}, numbers |-> << >>]

NoObs ==
  [calls |-> 0, pulls |-> 0, items |-> << >>, samples |-> << >>,
   processed |-> 0, end |-> "none"]

\* the caller has kept no exported state
NoSnap == [at |-> 0, was |-> << >>, written |-> FALSE]

\* the caller has one generator
NoPair ==
  [heap |-> EmptyHeap, held |-> {}, first |-> [kind |-> "none"],
   second |-> [kind |-> "none"], solo |-> NewWorld, op |-> "none",
   out |-> NoOut, soloout |-> NoOut]

(***************************************************************************)
(* State.                                                                  *)
(***************************************************************************)
VARIABLES
  heap,      \* the lists and dicts, by address
  held,      \* the addresses the caller holds
  gen,       \* the generator instance's attributes
  op,        \* the last operation called on the generator
  out,       \* what that call returned or raised
  ref,       \* a reference run: the generator as it would be without its
             \* last get_state/set_state round trip
  refout,    \* what the reference run's last advance returned or raised
  tracking,  \* whether a round trip separates gen from ref
  imported,  \* whether set_state has been called since construction
  nadv,      \* advances since construction (saturating)
  nemit,     \* values emitted since construction (saturating)
  emitted,   \* the items the advances have returned since construction
  tick,      \* flipped by each advance of a caller that advances for ever
  an,        \* the Analyzer's attributes
  run,       \* the running analyze call: where it is, and its locals
  obs,       \* what an observer of the Analyzer has seen: the analyze calls so
             \* far, and in the current call the next() calls, the items they
             \* returned, the samples processed and how the loop ended;
             \* processed counts the samples of all calls
  snap,      \* the state a caller got from get_state and kept: where it is,
             \* what it held when it was returned, whether the caller has
             \* written to it
  pair       \* two generators of one caller, and the second one on its own

genvars ==
  <<heap, held, gen, op, out, ref, refout, tracking, imported, nadv, nemit,
    emitted>>

anvars == <<an, run, obs>>

auxvars == <<snap, pair>>

vars == <<genvars, tick, anvars, auxvars>>

World == [heap |-> heap, held |-> held, self |-> gen]

Sat(n) == IF n < MaxCount THEN n + 1 ELSE MaxCount

Init ==
  /\ \E w0 \in InitWorlds :
       /\ heap = w0.heap
       /\ held = w0.held
       /\ gen = w0.self
       /\ ref = w0
  /\ op = "init"
  /\ out = NoOut
  /\ refout = NoOut
  /\ tracking = FALSE
  /\ imported = FALSE
  /\ nadv = 0
  /\ nemit = 0
  /\ emitted = {}
  /\ tick = FALSE
  /\ an = Analyzer_init
  /\ run = IdleRun
  /\ obs = NoObs
  /\ snap = NoSnap
  /\ pair = NoPair

SetWorld(w) ==
  /\ heap' = w.heap
  /\ held' = w.held
  /\ gen' = w.self

\* next(gen) with result r, on the generator and on the reference run
Pull(r) ==
  \E rr \in {IF tracking THEN GenNext(ref) ELSE r} :
     /\ SetWorld(r.w)
     /\ out' = r.out
     /\ ref' = rr.w
     /\ refout' = rr.out
     /\ op' = "next"
     /\ nadv' = Sat(nadv)
     /\ nemit' = IF r.out.t = "val" THEN Sat(nemit) ELSE nemit
     /\ emitted' = IF r.out.t = "val" THEN emitted \cup {r.out.nums} ELSE emitted
     /\ UNCHANGED <<tracking, imported>>

\* the code is single-threaded: a caller acts on the generator between
\* analyze calls, not during one
CallerRuns == run.pc \notin {"loop", "inner"}

Advance ==
  /\ CallerRuns
  /\ \E r \in {GenNext(World)} : Pull(r)
  /\ UNCHANGED <<tick, anvars, auxvars>>

\* one advance of a caller that does nothing but advance
AdvanceForEver ==
  /\ \E r \in {GenNext(World)} : Pull(r)
  /\ tick' = ~tick
  /\ UNCHANGED <<anvars, auxvars>>

Flip == tick' = ~tick

\* gen.set_state(gen.get_state()); the reference run skips it
RoundTrip ==
  \E r \in {RoundTripOf(World)} :
     /\ CallerRuns
     /\ SetWorld(r.w)
     /\ out' = r.out
     /\ ref' = World
     /\ refout' = r.out
     /\ tracking' = TRUE
     /\ op' = "roundtrip"
     /\ imported' = TRUE
     /\ UNCHANGED <<nadv, nemit, emitted, tick, anvars, auxvars>>

\* gen.set_state(payload)
SetState ==
  \E pl \in Payloads(gen.kind) :
    \E r \in {ImportOf(World, pl)} :
       /\ CallerRuns
       /\ ~imported
       /\ SetWorld(r.w)
       /\ out' = r.out
       /\ ref' = r.w
       /\ refout' = r.out
       /\ tracking' = FALSE
       /\ op' = "set_state"
       /\ imported' = TRUE
       /\ UNCHANGED <<nadv, nemit, emitted, tick, anvars, auxvars>>

Next == Advance \/ RoundTrip \/ SetState

Spec == Init /\ [][Next]_vars

(***************************************************************************)
(* Analyzer.analyze, one step per next() call and one per sample.          *)
(***************************************************************************)
\* analyzer.analyze(max_nums) is called: the locals are set
AnalyzeStart ==
  /\ CallerRuns
  /\ obs.calls < MaxCalls
  /\ \E mx \in 0..MaxNums :
       run' = [pc |-> "loop", max_nums |-> mx, total |-> 0, count |-> 0,
               seen_numbers |-> {}, numbers |-> << >>]
  /\ obs' = [obs EXCEPT !.calls = @ + 1, !.pulls = 0, !.items = << >>,
                        !.samples = << >>, !.end = "none"]
  /\ UNCHANGED <<genvars, tick, an, auxvars>>

\* Continues with the test count > max_nums
Continues_past_bound(r) == ~(r.count > r.max_nums)

\* whether the loop body runs for an item, given the locals
Continues(r) == ~(r.count >= r.max_nums)

\* the for statement asks the generator for its next item
AnalyzePull ==
  /\ run.pc = "loop"
  /\ \E r \in {GenNext(World)} :
       /\ Pull(r)
       /\ CASE r.out.t = "stop" ->
                 /\ an' = Finished(an, gen.kind, run)
                 /\ run' = [run EXCEPT !.pc = "done"]
                 /\ obs' = [obs EXCEPT !.pulls = @ + 1, !.end = "stop"]
            [] r.out.t = "err" ->
                 /\ an' = an
                 /\ run' = [run EXCEPT !.pc = "failed"]
                 /\ obs' = [obs EXCEPT !.pulls = @ + 1, !.end = "error"]
            [] r.out.t = "val" /\ ~Continues(run) ->
                 /\ an' = Finished(an, gen.kind, run)
                 /\ run' = [run EXCEPT !.pc = "done"]
                 /\ obs' = [obs EXCEPT !.pulls = @ + 1, !.end = "break"]
            [] r.out.t = "val" /\ Continues(run) ->
                 /\ an' = an
                 /\ run' = [run EXCEPT !.numbers = r.out.nums,
                                       !.pc = IF r.out.nums = << >>
                                              THEN "loop" ELSE "inner"]
                 /\ obs' = [obs EXCEPT !.pulls = @ + 1,
                                       !.items = Append(@, r.out.nums)]
  /\ UNCHANGED <<tick, auxvars>>

\* one pass of "for num in numbers"
AnalyzeSample ==
  /\ run.pc = "inner"
  /\ LET num == Head(run.numbers)
     IN /\ an' = SampleAttrs(an, num)
        /\ run' = [run EXCEPT !.total = @ + num,
                              !.seen_numbers = @ \cup {num},
                              !.count = @ + 1,
                              !.numbers = Tail(@),
                              !.pc = IF Tail(run.numbers) = << >>
                                     THEN "loop" ELSE "inner"]
        /\ obs' = [obs EXCEPT !.samples = Append(@, num), !.processed = @ + 1]
  /\ UNCHANGED <<genvars, tick, auxvars>>

\* the generator is new, or has been advanced a few times, when it is analyzed
Warmup == obs.calls = 0 /\ nadv < MaxCount /\ Advance

AnalyzerNext == Warmup \/ AnalyzeStart \/ AnalyzePull \/ AnalyzeSample

AnalyzerSpec == Init /\ [][AnalyzerNext]_vars

\* Repeated advances and nothing else.  __next__ can always be called, and the
\* caller keeps calling it: every step is an advance, every advance flips tick,
\* so fairness on the flip is fairness on the advance.
FairSpec == Init /\ [][AdvanceForEver]_vars /\ WF_tick(Flip)

(***************************************************************************)
(* A caller that keeps what get_state returned, and may write to it.       *)
(***************************************************************************)
\* the dict at address a as the caller reads it: its items, with the items of
\* the list in place of the list
ValueAt(w, a) ==
  LET d == w.heap[a].d
  IN [k \in DOMAIN d |->
        IF k \in RefKeys(w.self.kind) THEN w.heap[d[k]].items ELSE d[k]]

\* state = gen.get_state(); the caller keeps it
GetState ==
  /\ CallerRuns
  /\ snap.at = 0
  /\ \E g \in {GenGetState(World)} :
       /\ SetWorld(g.w)
       /\ ref' = g.w
       /\ snap' = [at |-> g.ret, was |-> ValueAt(g.w, g.ret), written |-> FALSE]
  /\ op' = "get_state"
  /\ out' = Exported
  /\ refout' = Exported
  /\ tracking' = FALSE
  /\ UNCHANGED <<imported, nadv, nemit, emitted, tick, anvars, pair>>

\* the world after state[k] = v, or state[k][0] = v where state[k] is a list
Written(w, a, k, v) ==
  LET d == w.heap[a].d
  IN IF k \in RefKeys(w.self.kind)
     THEN Put(w, d[k], ListObj([w.heap[d[k]].items EXCEPT ![1] = v]))
     ELSE Put(w, a, DictObj([d EXCEPT ![k] = v]))

\* the caller writes to the state it was given; the reference run is the
\* generator without the write
WriteExported ==
  /\ CallerRuns
  /\ snap.at /= 0
  /\ ~snap.written
  /\ \E k \in DOMAIN heap[snap.at].d, v \in ElemCands :
       /\ k \in RefKeys(gen.kind) => heap[heap[snap.at].d[k]].items /= << >>
       /\ Written(World, snap.at, k, v) /= World
       /\ SetWorld(Written(World, snap.at, k, v))
  /\ snap' = [snap EXCEPT !.written = TRUE]
  /\ ref' = World
  /\ tracking' = TRUE
  /\ op' = "write"
  /\ out' = NoOut
  /\ refout' = NoOut
  /\ UNCHANGED <<imported, nadv, nemit, emitted, tick, anvars, pair>>

ExportNext == GetState \/ WriteExported \/ Advance

ExportSpec == Init /\ [][ExportNext]_vars

(***************************************************************************)
(* A caller with two generators of one class, built with the same          *)
(* arguments: from one seed list, or from two equal lists.  The second     *)
(* generator is also run on its own, in a world where the first is never   *)
(* advanced.                                                               *)
(***************************************************************************)
\* the world of the caller once the generator of w exists
AfterConstruction(w) ==
  [heap |-> w.heap, held |-> Reach(w), self |-> [kind |-> "none"]]

\* a second generator built with the arguments the new generator of w was
\* built with; shared: from the same list object
SecondOf(w, shared) ==
  LET c == AfterConstruction(w)
      s == w.self
  IN CASE s.kind = "MS" -> MiddleSquare_construct(c, s.seed)
       [] s.kind = "LCG" -> LinearCongruential_construct(c, s.seed, s.a, s.c, s.m)
       [] s.kind = "LF" ->
            LET d == w.heap[s.state].d
                l == IF shared THEN [w |-> c, ret |-> d.val]
                     ELSE CallerList(c, w.heap[d.val].items)
            IN LaggedFibonacci_construct(l.w, l.ret, d.j, d.k, d.m)
       [] s.kind = "AC" ->
            LET d == w.heap[s.state].d
                l == IF shared THEN [w |-> c, ret |-> s.seed]
                     ELSE CallerList(c, w.heap[s.seed].items)
            IN Acorn_construct(l.w, l.ret, d.M)

\* the world one generator of the pair runs in: the lists and dicts of the
\* other generator are there too
WorldOf(p, self, other) ==
  [heap |-> p.heap,
   held |-> p.held \cup Reach([heap |-> p.heap, held |-> {}, self |-> other]),
   self |-> self]

\* the seed a generator compares with to detect its cycle
SeedSnapshot(w) ==
  CASE w.self.kind = "LF" -> w.heap[w.self.value].items
    [] w.self.kind = "AC" -> w.heap[w.self.seed].items
    [] OTHER -> << >>

PairOf(w, shared) ==
  LET w2 == SecondOf(w, shared)
      p == [heap |-> w2.heap, held |-> w.held \cup (w2.held \ Reach(w)),
            first |-> w.self, second |-> w2.self]
  IN [heap |-> p.heap, held |-> p.held, first |-> p.first, second |-> p.second,
      solo |-> WorldOf(p, p.second, p.first), op |-> "init",
      out |-> NoOut, soloout |-> NoOut]

PairInit ==
  /\ pair \in {PairOf(w, shared) : w \in InitWorlds, shared \in BOOLEAN}
  /\ heap = EmptyHeap
  /\ held = {}
  /\ gen = [kind |-> "none"]
  /\ ref = NewWorld
  /\ op = "init"
  /\ out = NoOut
  /\ refout = NoOut
  /\ tracking = FALSE
  /\ imported = FALSE
  /\ nadv = 0
  /\ nemit = 0
  /\ emitted = {}
  /\ tick = FALSE
  /\ an = Analyzer_init
  /\ run = IdleRun
  /\ obs = NoObs
  /\ snap = NoSnap

\* next(first)
AdvanceFirst ==
  /\ \E r \in {GenNext(WorldOf(pair, pair.first, pair.second))} :
       pair' = [pair EXCEPT !.heap = r.w.heap, !.first = r.w.self,
                            !.op = "first", !.out = r.out]
  /\ UNCHANGED <<genvars, tick, anvars, snap>>

\* next(second), and the same advance of the second generator on its own
AdvanceSecond ==
  /\ \E r \in {GenNext(WorldOf(pair, pair.second, pair.first))} :
       \E rs \in {GenNext(pair.solo)} :
          pair' = [pair EXCEPT !.heap = r.w.heap, !.second = r.w.self,
                               !.solo = rs.w, !.op = "second", !.out = r.out,
                               !.soloout = rs.out]
  /\ UNCHANGED <<genvars, tick, anvars, snap>>

PairNext == AdvanceFirst \/ AdvanceSecond

PairSpec == PairInit /\ [][PairNext]_vars

(***************************************************************************)
(* C1: exhaustion is terminal for every generator: once an advance has     *)
(* signalled exhaustion, the next advance on the same instance, with no    *)
(* import in between, signals exhaustion too.                              *)
(* LaggedFibonacci breaks it: its window equals the seed when it stops, so *)
(* the next advance starts the sequence again.                             *)
(***************************************************************************)
C1_ExhaustionTerminal ==
  [][(op = "next" /\ out.t = "stop" /\ op' = "next") => out'.t = "stop"]_vars

(***************************************************************************)
(* C2: every generator produces a finite sequence: repeated advances reach *)
(* an advance that emits no value.  (The claim asks for an exhaustion      *)
(* signal; an advance that fails is counted in its favour here, so that    *)
(* what refutes it is a generator that emits for ever.)                    *)
(***************************************************************************)
C2_FiniteSequence == <>(op = "next" /\ out.t /= "val")

(***************************************************************************)
(* C3: after g.set_state(g.get_state()), every advance returns what it     *)
(* returns in the run without the round trip: the same value, and for      *)
(* MiddleSquare, LaggedFibonacci and Acorn exhaustion at the same advance. *)
(* For LinearCongruential the round trip changes nothing but seen_numbers, *)
(* which it empties, so the run emits the same values and can only stop    *)
(* later.                                                                  *)
(***************************************************************************)
C3_RoundTrip ==
  /\ op = "roundtrip" =>
       /\ out.t = "import"
       /\ gen.kind = "LCG" => gen = [ref.self EXCEPT !.seen_numbers = {}]
  /\ (tracking /\ op = "next") =>
       IF gen.kind = "LCG"
       THEN refout.t /= "stop" => out = refout
       ELSE out = refout

\* a LinearCongruential that emits after the round trip where the run
\* without it has stopped
C3_Witness ==
  /\ tracking /\ op = "next" /\ gen.kind = "LCG"
  /\ refout.t = "stop" /\ out.t = "val"

(***************************************************************************)
(* C4: a MiddleSquare that has only been advanced keeps the ndigits of its *)
(* construction, and every value it emits is in 0 .. 10^ndigits - 1.       *)
(***************************************************************************)
C4_DigitCount ==
  (gen.kind = "MS" /\ ~imported) =>
     LET st == heap[gen.state].d
     IN /\ st.ndigits = Len(Str(gen.seed))
        /\ (op = "next" /\ out.t = "val") =>
             (0 <= out.nums[1] /\ out.nums[1] < Pow(10, st.ndigits))

\* a four-digit run whose third value has a leading zero
C4_Witness ==
  /\ gen.kind = "MS" /\ ~imported /\ op = "next" /\ out.t = "val"
  /\ heap[gen.state].d.ndigits = 4 /\ nemit >= 3 /\ out.nums[1] < 1000

(***************************************************************************)
(* C5 as claimed: LinearCongruential with a = 1, c = 0 and m > 0 emits at  *)
(* most one value, for every integer seed.                                 *)
(***************************************************************************)
IdentityLCG ==
  gen.kind = "LCG" /\ ~imported /\ gen.a = 1 /\ gen.c = 0 /\ gen.m > 0

SeedInRange == 0 <= gen.seed /\ gen.seed < gen.m

C5_AtMostOneValue == IdentityLCG => nemit <= 1

(***************************************************************************)
(* C5 as amended: with a = 1, c = 0 and m > 0, a seed in 0 .. m-1 is       *)
(* emitted once and the second advance signals exhaustion; any other       *)
(* integer seed gives seed mod m twice and the third advance signals       *)
(* exhaustion.                                                             *)
(***************************************************************************)
C5_IdentityStops ==
  IdentityLCG =>
    /\ out.t = "val" => out.nums[1] = PyMod(gen.seed, gen.m)
    /\ out.t \in {"none", "val", "stop"}
    /\ IF SeedInRange
       THEN nemit <= 1 /\ (nadv >= 2 => out.t = "stop")
       ELSE nemit <= 2 /\ (nadv >= 3 => out.t = "stop")

\* a seed outside 0 .. m-1 that has been emitted twice and then stopped
C5_Witness ==
  IdentityLCG /\ ~SeedInRange /\ nemit = 2 /\ out.t = "stop"

(***************************************************************************)
(* C10: parameter errors are never deferred: on a generator its            *)
(* constructor accepted, every advance emits a value or signals exhaustion *)
(* and raises nothing else.  A modulus of 0 passes every constructor and   *)
(* raises ZeroDivisionError in __next__.                                   *)
(***************************************************************************)
C10_NoDeferredError ==
  (~imported /\ op = "next") => out.t \in {"val", "stop"}

(***************************************************************************)
(* What the Analyzer claims are stated in.                                 *)
(***************************************************************************)
\* int.bit_length: the binary digits of |x|, none for 0
BitLength(x) == IF x = 0 THEN 0 ELSE Len(BinDigits(Abs(x)))

RECURSIVE Flatten(_)
Flatten(items) ==
  IF items = << >> THEN << >> ELSE Head(items) \o Flatten(Tail(items))

RECURSIVE Sum(_)
Sum(seq) == IF seq = << >> THEN 0 ELSE Head(seq) + Sum(Tail(seq))

Range(seq) == {seq[i] : i \in 1..Len(seq)}

\* the running analyze call has processed a sample
AfterSample == obs.samples /= << >>

(***************************************************************************)
(* C6 as claimed: after every sample analyze processes, bit_freqs is no    *)
(* longer than bit_length(max), with bit_length(0) = 0, and every entry is *)
(* at most count.                                                          *)
(***************************************************************************)
C6_BitTableBound ==
  AfterSample =>
    /\ Len(an.bit_freqs) <= BitLength(an.max.v)
    /\ \A p \in 1..Len(an.bit_freqs) : an.bit_freqs[p] <= run.count

(***************************************************************************)
(* C6 as amended: after every sample, every entry of bit_freqs is at most  *)
(* the number of samples the Analyzer has processed: count in its first    *)
(* analyze call, the samples of all its calls later, since bit_freqs is    *)
(* kept from call to call.  While the samples are non-negative the length  *)
(* of bit_freqs is the number of binary digits of max, which is            *)
(* bit_length(max) for max > 0 and 1 for max = 0; under a negative max the *)
(* sign character is counted too and the length exceeds bit_length(max).   *)
(***************************************************************************)
C6_BitTableDigits ==
  AfterSample =>
    /\ an.min.v >= 0 =>
         Len(an.bit_freqs) = (IF an.max.v = 0 THEN 1 ELSE BitLength(an.max.v))
    /\ an.max.v < 0 => Len(an.bit_freqs) > BitLength(an.max.v)
    /\ \A p \in 1..Len(an.bit_freqs) : an.bit_freqs[p] <= obs.processed
    /\ obs.calls = 1 => obs.processed = run.count

\* the only sample so far is 0: the table has one entry
C6_Witness ==
  /\ AfterSample /\ ~an.max.none /\ an.max.v = 0 /\ an.min.v = 0
  /\ Len(an.bit_freqs) = 1 /\ run.count >= 1

(***************************************************************************)
(* C7: analyze(max_nums) processes at most max_nums samples, a component   *)
(* of an emitted vector counting as one sample.  The bound is tested once  *)
(* per emitted item, so a vector is processed whole.                       *)
(***************************************************************************)
C7_SampleBound == run.pc = "done" => run.count <= run.max_nums

(***************************************************************************)
(* C8: when the generator signals exhaustion, analyze stops there: the     *)
(* samples it processed are the values of the items the generator          *)
(* returned to it, the exhausted generator is not asked again, and for     *)
(* MiddleSquare, LinearCongruential and LaggedFibonacci the period is the  *)
(* number of those items.                                                  *)
(***************************************************************************)
C8_StopsAtExhaustion ==
  (run.pc = "done" /\ obs.end = "stop") =>
    /\ obs.samples = Flatten(obs.items)
    /\ run.count = Len(Flatten(obs.items))
    /\ run.total = Sum(Flatten(obs.items))
    /\ obs.pulls = Len(obs.items) + 1
    /\ op = "next" /\ out.t = "stop"
    /\ gen.kind /= "AC" => an.period = Len(obs.items)

\* exhaustion after two values, below the bound, one value seen twice
C8_Witness ==
  /\ run.pc = "done" /\ obs.end = "stop" /\ gen.kind /= "AC"
  /\ Len(obs.items) = 2 /\ run.count < run.max_nums
  /\ obs.items[1] = obs.items[2]

(***************************************************************************)
(* C9: after analyze on an Acorn, the period is the number of distinct     *)
(* values among the components of the vectors processed, which is at most  *)
(* the number of samples processed.                                        *)
(***************************************************************************)
C9_AcornPeriod ==
  (run.pc = "done" /\ gen.kind = "AC") =>
    /\ an.period = Cardinality(Range(obs.samples))
    /\ an.period <= Len(obs.samples)
    /\ Len(obs.samples) = run.count

\* vectors with a repeated component: fewer distinct values than samples
C9_Witness ==
  /\ run.pc = "done" /\ gen.kind = "AC"
  /\ an.period >= 2 /\ an.period < run.count

(***************************************************************************)
(* C13: each LaggedFibonacci advance computes                              *)
(* next = (window[-k] + window[-j]) mod m from the window before the       *)
(* advance, the window becomes the old window without its first element    *)
(* followed by next, so that its length stays the length of the seed, and  *)
(* next is emitted unless the new window equals the seed, when exhaustion  *)
(* is signalled.  With the modulus 0 the constructor accepts, the advance  *)
(* raises ZeroDivisionError instead.                                       *)
(***************************************************************************)
\* what the claim says of an advance from window, given what the advance did
LaggedStep(window, seed, j, k, m, new, result) ==
  LET next == PyMod(PyIndex(window, -k) + PyIndex(window, -j), m)
  IN /\ new = Tail(window) \o <<next>>
     /\ Len(new) = Len(seed)
     /\ result = (IF new = seed THEN Stop ELSE Emit(next))

C13_LaggedRecurrence ==
  [][(gen.kind = "LF" /\ ~imported /\ op' = "next") =>
       LET st == heap[gen.state].d
       IN /\ st.m /= 0
          /\ LaggedStep(heap[st.val].items, heap[gen.value].items, st.j, st.k,
                        st.m, heap'[st.val].items, out')]_vars

\* the same with the modulus 0 set aside: the recurrence itself is as claimed
C13_RecurrenceNonzeroModulus ==
  [][(gen.kind = "LF" /\ ~imported /\ op' = "next" /\ heap[gen.state].d.m /= 0) =>
       LET st == heap[gen.state].d
       IN LaggedStep(heap[st.val].items, heap[gen.value].items, st.j, st.k,
                     st.m, heap'[st.val].items, out')]_vars

(***************************************************************************)
(* C14: after any advances and any imports set_state accepts, an Acorn has *)
(* values[0] < M and as many values as its seed; and an advance that emits *)
(* leaves element 0 as it was and makes each element i >= 1 the sum of the *)
(* new element i-1 and the old element i, modulo M.                        *)
(* set_state checks only that both keys are present, so an import can      *)
(* bring a vector of any length, and any M.                                *)
(***************************************************************************)
AcornVector == heap[heap[gen.state].d.vals].items

C14_AcornInvariant ==
  /\ gen.kind = "AC" =>
       /\ Len(AcornVector) = Len(heap[gen.seed].items)
       /\ AcornVector[1] < heap[gen.state].d.M
  /\ (gen.kind = "AC" /\ ~imported /\ op = "next" /\ out.t = "val") =>
       /\ out.nums = AcornVector
       /\ out.nums[1] = heap[gen.seed].items[1]

\* the part about advances alone: how the emitted vector follows from the old
C14_AcornRecurrence ==
  [][(gen.kind = "AC" /\ ~imported /\ op' = "next" /\ out'.t = "val") =>
       LET old == AcornVector
           M == heap[gen.state].d.M
           new == out'.nums
       IN /\ Len(new) = Len(old)
          /\ new[1] = old[1]
          /\ \A i \in 2..Len(new) : new[i] = PyMod(new[i - 1] + old[i], M)]_vars

(***************************************************************************)
(* C16: after a LinearCongruential set_state with all four keys and a      *)
(* nonzero m, seen_numbers is empty, and the next advance emits            *)
(* (a * val + c) mod m and does not signal exhaustion, whether or not the  *)
(* generator was exhausted before the import.                              *)
(***************************************************************************)
C16_ImportResets ==
  [][/\ (gen.kind = "LCG" /\ op' = "set_state" /\ out'.t = "import") =>
          gen'.seen_numbers = {}
     /\ (gen.kind = "LCG" /\ op = "set_state" /\ out.t = "import" /\ gen.m /= 0
           /\ op' = "next") =>
          out' = Emit(PyMod(gen.a * gen.value + gen.c, gen.m))]_vars

\* LinearCongruential(_, _, _, 1) emitted once and stopped, the import set
\* m = 3, and the advance after it emitted
C16_Witness ==
  /\ gen.kind = "LCG" /\ imported /\ ~tracking
  /\ gen.state.m = 1 /\ gen.m = 3
  /\ nadv = 3 /\ nemit = 2 /\ op = "next" /\ out.t = "val"

(***************************************************************************)
(* C19: a LinearCongruential set_state that fails for a missing key leaves *)
(* a, c, m, the current value and seen_numbers as they were.               *)
(* The four assignments run in order, so the keys before the missing one   *)
(* have been stored when KeyError is raised.                               *)
(***************************************************************************)
C19_FailedImportChangesNothing ==
  [][(gen.kind = "LCG" /\ op' = "set_state" /\ out'.t = "err") => gen' = gen]_vars

(***************************************************************************)
(* What the claims about the report of analyze are stated in: the          *)
(* statistics of a sequence of samples, computed from the samples.         *)
(***************************************************************************)
\* how many of the samples have bit i set
SetBitCount(samples, i) ==
  Cardinality({n \in 1..Len(samples) : BitSet(samples[n], i)})

Smallest(samples) == CHOOSE x \in Range(samples) : \A y \in Range(samples) : x <= y

Largest(samples) == CHOOSE x \in Range(samples) : \A y \in Range(samples) : x >= y

\* the fraction avg is total / count
IsMean(avg, total, count) == avg.num * count = total * avg.den

IsZero(avg) == avg.num = 0 /\ avg.den /= 0

NonNegative(samples) == \A n \in 1..Len(samples) : samples[n] >= 0

(***************************************************************************)
(* C17: when the first analyze call of an Analyzer returns, having         *)
(* processed non-negative samples, every entry i of bit_freqs is the       *)
(* number of processed samples that have bit i set, and no processed       *)
(* sample has a set bit at an index the table does not have.               *)
(***************************************************************************)
C17_BitCounts ==
  (run.pc = "done" /\ obs.calls = 1 /\ NonNegative(obs.samples)) =>
    /\ \A p \in 1..Len(an.bit_freqs) :
         an.bit_freqs[p] = SetBitCount(obs.samples, p - 1)
    /\ \A n \in 1..Len(obs.samples) :
         BitLength(obs.samples[n]) <= Len(an.bit_freqs)

\* three samples, a bit they all have and a bit only some have
C17_Witness ==
  /\ run.pc = "done" /\ obs.calls = 1 /\ NonNegative(obs.samples)
  /\ Len(obs.samples) = 3
  /\ \E p, q \in 1..Len(an.bit_freqs) :
       an.bit_freqs[p] = 3 /\ an.bit_freqs[q] \in {1, 2}

(***************************************************************************)
(* C18: when an analyze call returns, the first or a later one on the same *)
(* Analyzer, having processed a sample, min and max are the smallest and   *)
(* the largest of the samples of that call and the mean is their sum       *)
(* divided by their number; a call that processed none reports mean 0 and  *)
(* period 0.                                                               *)
(* min and max are kept from call to call, so a later call reports the     *)
(* smallest and largest sample of all calls so far.                        *)
(***************************************************************************)
ReportOf(samples) ==
  IF samples = << >>
  THEN IsZero(an.average) /\ an.period = 0
  ELSE /\ ~an.min.none /\ an.min.v = Smallest(samples)
       /\ ~an.max.none /\ an.max.v = Largest(samples)
       /\ IsMean(an.average, Sum(samples), Len(samples))

C18_ReportOfTheCall == run.pc = "done" => ReportOf(obs.samples)

\* the same for the first call alone, where it holds
C18_ReportOfFirstCall ==
  (run.pc = "done" /\ obs.calls = 1) => ReportOf(obs.samples)

(***************************************************************************)
(* C20: when analyze stops at the sample bound and not at exhaustion, the  *)
(* generator has been advanced once more than the number of items in the   *)
(* statistics: the last item was taken from the generator and dropped, and *)
(* the report is that of the samples before it.                            *)
(***************************************************************************)
C20_OneItemDiscarded ==
  (run.pc = "done" /\ obs.end = "break") =>
    /\ obs.pulls = Len(obs.items) + 1
    /\ op = "next" /\ out.t = "val"
    /\ obs.samples = Flatten(obs.items)
    /\ run.count = Len(obs.samples) /\ run.count >= run.max_nums
    /\ gen.kind /= "AC" => run.count = run.max_nums
    /\ IF obs.samples = << >>
       THEN IsZero(an.average)
       ELSE IsMean(an.average, Sum(obs.samples), Len(obs.samples))
    /\ an.period = (IF gen.kind = "AC" THEN Cardinality(Range(obs.samples))
                                       ELSE Len(obs.samples))
    /\ obs.calls = 1 =>
         /\ ReportOf(obs.samples)
         /\ obs.samples = << >> =>
              an.min.none /\ an.max.none /\ an.bit_freqs = << >>
         /\ NonNegative(obs.samples) =>
              \A p \in 1..Len(an.bit_freqs) :
                 an.bit_freqs[p] = SetBitCount(obs.samples, p - 1)

\* the dropped item is larger than every sample, and a value no sample has
C20_Witness ==
  /\ run.pc = "done" /\ obs.end = "break" /\ obs.calls = 1
  /\ Len(obs.samples) >= 2
  /\ \A n \in 1..Len(obs.samples) : out.nums[1] > obs.samples[n]

(***************************************************************************)
(* C15: the values one MiddleSquare emits are pairwise distinct over its   *)
(* whole life, state imports included: an advance whose newly computed     *)
(* value was emitted at any earlier time signals exhaustion, and one whose *)
(* value is new emits it.                                                  *)
(***************************************************************************)
C15_NeverEmitsTwice ==
  [][(gen.kind = "MS" /\ op' = "next" /\ out'.t \in {"val", "stop"}) =>
       LET v == heap'[gen'.state].d.val
       IN IF <<v>> \in emitted THEN out' = Stop ELSE out' = Emit(v)]_vars

\* MiddleSquare(24) emitted 57, the import set the value back to 24, and the
\* advance after it computed 57 again and stopped
C15_Witness ==
  /\ gen.kind = "MS" /\ gen.seed = 24 /\ imported /\ ~tracking
  /\ nadv = 2 /\ nemit = 1 /\ op = "next" /\ out.t = "stop"
  /\ heap[gen.state].d.val = 57 /\ <<57>> \in emitted

(***************************************************************************)
(* C12: what get_state returns is an independent snapshot, for every       *)
(* generator: later advances do not change it, and writing to it, or to    *)
(* the list in it, does not change what the generator's later advances     *)
(* return.                                                                 *)
(* LaggedFibonacci and Acorn return their state dict itself.               *)
(***************************************************************************)
C12_IndependentSnapshot ==
  /\ (snap.at /= 0 /\ ~snap.written) => ValueAt(World, snap.at) = snap.was
  /\ (snap.written /\ op = "next") => out = refout

\* the same for MiddleSquare and LinearCongruential, which return a new dict
C12_CopyingGenerators == gen.kind \in {"MS", "LCG"} => C12_IndependentSnapshot

(***************************************************************************)
(* C11: two generators share no mutable state: whatever advances the first *)
(* has made, every advance of the second returns what it returns when the  *)
(* first is never advanced, and the seed the second compares with is the   *)
(* same; also when both were built from one seed list.                     *)
(* A LaggedFibonacci keeps the caller's list as its window and changes it  *)
(* in place, so two built from one list advance one window.                *)
(***************************************************************************)
C11_NoSharedState ==
  /\ SeedSnapshot(WorldOf(pair, pair.second, pair.first)) = SeedSnapshot(pair.solo)
  /\ pair.op = "second" => pair.out = pair.soloout

\* two LaggedFibonacci whose state dicts hold one list
SharedWindow ==
  /\ pair.first.kind = "LF"
  /\ pair.heap[pair.first.state].d.val = pair.heap[pair.second.state].d.val

\* the same for every pair but two LaggedFibonacci built from one list
C11_OwnWindows == ~SharedWindow => C11_NoSharedState

====
